---- MODULE Spec2Model ----
(***************************************************************************)
(* Model of plugins/modules/ise_radius_integration_workflow_manager.py:    *)
(* the have/want reconcile loop for Authentication and Policy (AAA / ISE)  *)
(* servers of Cisco Catalyst Center.                                       *)
(*                                                                         *)
(* Python values are modelled as follows.                                  *)
(*   - None / a missing dict key read with .get():   <<>>   (None)         *)
(*     a present value v of a playbook field:        <<v>>  (Some(v))      *)
(*   - dicts (have details, want, payloads): functions whose DOMAIN is the *)
(*     set of keys present.                                                *)
(*   - shared secrets, keys and passwords: sequences of one-character      *)
(*     strings, so that len() and "char in string" are computed.           *)
(*   - task progress texts: sequences of words, so that .lower() and the   *)
(*     substring test are computed.                                        *)
(*   - time: whole milliseconds.                                            *)
(***************************************************************************)
EXTENDS Integers, Sequences, FiniteSets, TLC

VARIABLES
    params,             \* module parameters: state, config_verify
    playbook,           \* params.config: the list of config items
    remote,             \* servers held by Cisco Catalyst Center, by ipAddress
    run,                \* 1 = first module run, 2 = second run of the same playbook
    idx,                \* position of main's for loop in the playbook (0 = before)
    pc,                 \* position of the module run
    have,               \* self.have
    want,               \* self.want
    status,             \* self.status
    msg,                \* self.msg
    result,             \* self.result: changed, and msg / response of authenticationPolicyServer
    validation_string,  \* self.validation_string
    task,               \* the task being polled: function, fate, elapsed ms, what the polls saw
    calls,              \* write / certificate calls submitted for the current config item
    first_result        \* self.result at the end of the first module run

vars == <<params, playbook, remote, run, idx, pc, have, want, status, msg,
          result, validation_string, task, calls, first_result>>

-----------------------------------------------------------------------------
(* Python helpers *)

None == <<>>
Some(v) == <<v>>
IsNone(x) == x = <<>>
\* "if x:" for an optional int, an optional text and an optional sequence
TruthyInt(x) == x # <<>> /\ x[1] # 0
TruthyStr(x) == x # <<>> /\ x[1] # ""
TruthySeq(x) == x # <<>> /\ Len(x[1]) > 0
Get(d, k) == IF k \in DOMAIN d THEN Some(d[k]) ELSE None
Update(d, k, v) == [x \in (DOMAIN d) \cup {k} |-> IF x = k THEN v ELSE d[x]]
EmptyDict == [x \in {} |-> TRUE]
Rep(c, n) == [i \in 1..n |-> c]

Digits == <<"0", "1", "2", "3", "4", "5", "6", "7", "8", "9">>

RECURSIVE IntToStr(_)
IntToStr(n) ==
    IF n < 0 THEN "-" \o IntToStr(0 - n)
    ELSE IF n < 10 THEN Digits[n + 1]
    ELSE IntToStr(n \div 10) \o Digits[(n % 10) + 1]

\* str(v) of a remote value that is a JSON number or a JSON string
PyInt(n) == [k |-> "int", v |-> n]
PyString(s) == [k |-> "str", s |-> s]
PyStr(x) == IF x.k = "int" THEN IntToStr(x.v) ELSE x.s

\* str(n).isdigit() for an int n
IntIsDigit(n) == n >= 0

-----------------------------------------------------------------------------
(* Program constants *)

DefaultAuthenticationPort == 1812
DefaultAccountingPort == 1813
MaxPort == 65535
TacacsPort == 49
SharedSecretMinLen == 4
SharedSecretMaxLen == 100
MessageKeyLen == 20
EncryptionKeyLen == 16
RetriesMax == 3
TimeoutMin == 2
TimeoutMax == 20
PasswordMinLen == 4
PasswordMaxLen == 127
DefaultIseWaitTime == 20
IseWaitTimeMax == 120
SleepDivisor == 1000
DefaultTaskTimeout == 1200

-----------------------------------------------------------------------------
(* get_obj_params, requires_update *)

\* get_obj_params with the timeoutSeconds pair left out
obj_params_without_timeout ==
    << <<"protocol", "protocol">>, <<"retries", "retries">> >>

\* get_obj_params with the ansible_param of the last two pairs exchanged
obj_params_crossed ==
    << <<"protocol", "protocol">>,
       <<"retries", "timeoutSeconds">>,
       <<"timeoutSeconds", "retries">> >>

\* obj_params of "authenticationPolicyServer": (dnac_param, ansible_param)
get_obj_params ==
    << <<"protocol", "protocol">>,
       <<"retries", "retries">>,
       <<"timeoutSeconds", "timeoutSeconds">> >>

\* module_utils dnac_compare_equality on scalars: a None on either side is "equal"
dnac_compare_equality(current_value, requested_value) ==
    IF IsNone(requested_value) THEN TRUE
    ELSE IF IsNone(current_value) THEN TRUE
    ELSE current_value[1] = requested_value[1]

requires_update(have_details, want_details, obj_params) ==
    \E i \in 1..Len(obj_params) :
        ~dnac_compare_equality(Get(have_details, obj_params[i][1]),
                               Get(want_details, obj_params[i][2]))

-----------------------------------------------------------------------------
(* get_auth_server_params, auth_server_exists, get_have *)

IseDtoHave(cred) ==
    [k \in {"userName", "fqdn", "ipAddress", "subscriberName", "description"}
        \cap DOMAIN cred |-> cred[k]]

\* Keys whose value is None are left out: every read of the result is a .get().
get_auth_server_params(info) ==
    LET copied == {"authenticationPort", "accountingPort", "ipAddress",
                   "pxgridEnabled", "useDnacCertForPxgrid", "port", "protocol",
                   "role", "encryptionScheme"} \cap DOMAIN info
        base == [k \in copied \cup {"retries", "timeoutSeconds"} |->
                    IF k = "retries" THEN PyStr(info["retries"])
                    ELSE IF k = "timeoutSeconds" THEN PyStr(info["timeoutSeconds"])
                    ELSE info[k]]
        withIse == Update(base, "isIseEnabled", info["iseEnabled"])
    IN  IF info["iseEnabled"] = TRUE
        THEN Update(withIse, "ciscoIseDtos",
                    [i \in 1..Len(info["ciscoIseDtos"]) |->
                        IseDtoHave(info["ciscoIseDtos"][i])])
        ELSE withIse

\* AuthServer = {exists, details, id} for the server with this ipAddress
auth_server_exists(servers, ipAddress) ==
    IF IsNone(servers[ipAddress])
    THEN [exists |-> FALSE, details |-> None, id |-> None]
    ELSE [exists |-> TRUE,
          details |-> Some(get_auth_server_params(servers[ipAddress][1])),
          id |-> Some(servers[ipAddress][1]["instanceUuid"])]

HaveDetails == have["authenticationPolicyServer"].details[1]
HaveExists == have["authenticationPolicyServer"].exists
HaveId == have["authenticationPolicyServer"].id

-----------------------------------------------------------------------------
(* get_want_authentication_policy_server                                    *)
(* The method is a chain of sections, each of which may set msg and status  *)
(* "failed" and return. A section is an operator on the record              *)
(*   r = [failed, msg, a, w]                                                *)
(* where a is the local dict auth_server and w the entries put in self.want.*)
(* aps is the playbook's authentication_policy_server, exists and details   *)
(* are self.have["authenticationPolicyServer"]'s.                           *)

Fail(r, m) == [r EXCEPT !.failed = TRUE, !.msg = m]
Put(r, k, v) == [r EXCEPT !.a = Update(r.a, k, v)]

\* WantServerType that does not copy isIseEnabled from an existing server
WantServerTypeNotCopied(r, aps, exists, details) ==
    IF ~exists
    THEN IF aps.server_type \notin {Some("ISE"), Some("AAA"), None}
         THEN Fail(r, "The server_type should either be ISE or AAA but not "
                      \o aps.server_type[1] \o ".")
         ELSE Put(Put(r, "isIseEnabled", aps.server_type = Some("ISE")),
                  "ipAddress", aps.server_ip_address[1])
    ELSE Put(Put(r, "isIseEnabled", FALSE),
             "ipAddress", aps.server_ip_address[1])

\* lines 749-763
WantServerType(r, aps, exists, details) ==
    IF ~exists
    THEN IF aps.server_type \notin {Some("ISE"), Some("AAA"), None}
         THEN Fail(r, "The server_type should either be ISE or AAA but not "
                      \o aps.server_type[1] \o ".")
         ELSE Put(Put(r, "isIseEnabled", aps.server_type = Some("ISE")),
                  "ipAddress", aps.server_ip_address[1])
    ELSE Put(Put(r, "isIseEnabled", details["isIseEnabled"]),
             "ipAddress", aps.server_ip_address[1])

InvalidSecretChars == <<" ", "?", "<">>

HasChar(text, c) == \E i \in 1..Len(text) : text[i] = c

\* WantSharedSecret without the test "if not auth_server_exists"
WantSharedSecretAlways(r, aps, exists, details) ==
    IF r.failed THEN r
    ELSE IF ~TruthySeq(aps.shared_secret)
    THEN Fail(r, "Missing parameter 'shared_secret' is required.")
    ELSE Put(r, "sharedSecret", aps.shared_secret[1])

\* WantSharedSecret without the tests of the length and of the characters
WantSharedSecretUnchecked(r, aps, exists, details) ==
    IF r.failed \/ exists THEN r
    ELSE IF ~TruthySeq(aps.shared_secret)
    THEN Fail(r, "Missing parameter 'shared_secret' is required.")
    ELSE Put(r, "sharedSecret", aps.shared_secret[1])

\* lines 767-787
WantSharedSecret(r, aps, exists, details) ==
    IF r.failed \/ exists THEN r
    ELSE IF ~TruthySeq(aps.shared_secret)
    THEN Fail(r, "Missing parameter 'shared_secret' is required.")
    ELSE IF Len(aps.shared_secret[1]) < SharedSecretMinLen
            \/ Len(aps.shared_secret[1]) > SharedSecretMaxLen
    THEN Fail(r, "The 'shared_secret' should contain between 4 and 100 characters.")
    ELSE IF \E i \in 1..Len(InvalidSecretChars) :
                HasChar(aps.shared_secret[1], InvalidSecretChars[i])
    THEN Fail(r, "The 'shared_secret' should not contain spaces or the characters '?', '<'.")
    ELSE Put(r, "sharedSecret", aps.shared_secret[1])

\* lines 789-804
WantProtocol(r, aps, exists, details) ==
    IF r.failed THEN r
    ELSE IF aps.protocol \notin {Some("RADIUS"), Some("TACACS"), Some("RADIUS_TACACS"), None}
    THEN Fail(r, "protocol should either be ['RADIUS', 'TACACS', 'RADIUS_TACACS']."
                 \o "It should not be " \o aps.protocol[1])
    ELSE LET p == IF ~IsNone(aps.protocol) THEN aps.protocol[1]
                  ELSE IF ~exists THEN "RADIUS"
                  ELSE details["protocol"]
         IN  Put(Put(r, "protocol", p), "port", TacacsPort)

\* WantKeywrap without the tests of the two key lengths
WantKeywrapAnyLength(r, aps) ==
    IF ~TruthySeq(aps.message_authenticator_code_key)
    THEN Fail(r, "The 'message_authenticator_code_key' should not be empty if the encryption_scheme is 'KEYWRAP'.")
    ELSE IF ~TruthySeq(aps.encryption_key)
    THEN Fail(r, "The encryption_key should not be empty if encryption_scheme is 'KEYWRAP'.")
    ELSE Put(Put(r, "messageKey", aps.message_authenticator_code_key[1]),
             "encryptionKey", aps.encryption_key[1])

\* lines 817-846
WantKeywrap(r, aps) ==
    IF ~TruthySeq(aps.message_authenticator_code_key)
    THEN Fail(r, "The 'message_authenticator_code_key' should not be empty if the encryption_scheme is 'KEYWRAP'.")
    ELSE IF Len(aps.message_authenticator_code_key[1]) # MessageKeyLen
    THEN Fail(r, "The 'message_authenticator_code_key' should be exactly 20 characters.")
    ELSE IF ~TruthySeq(aps.encryption_key)
    THEN Fail(r, "The encryption_key should not be empty if encryption_scheme is 'KEYWRAP'.")
    ELSE IF Len(aps.encryption_key[1]) # EncryptionKeyLen
    THEN Fail(r, "The 'encryption_key' must be 16 characters long. It may contain alphanumeric and special characters.")
    ELSE Put(Put(r, "messageKey", aps.message_authenticator_code_key[1]),
             "encryptionKey", aps.encryption_key[1])

\* lines 806-846
WantEncryption(r, aps, exists, details) ==
    IF r.failed \/ exists THEN r
    ELSE IF aps.encryption_scheme \notin {Some("KEYWRAP"), Some("RADSEC"), None}
    THEN Fail(r, "The encryption_scheme should be in ['KEYWRAP', 'RADSEC']. "
                 \o "It should not be " \o aps.encryption_scheme[1] \o ".")
    ELSE LET r1 == IF TruthyStr(aps.encryption_scheme)
                   THEN Put(r, "encryptionScheme", aps.encryption_scheme[1])
                   ELSE r
         IN  IF aps.encryption_scheme = Some("KEYWRAP") THEN WantKeywrap(r1, aps) ELSE r1

\* lines 848-884: the same section for authentication_port and accounting_port
WantPort(r, given, exists, details, key, field, default) ==
    IF r.failed THEN r
    ELSE IF exists THEN Put(r, key, details[key])
    ELSE LET port == IF ~TruthyInt(given) THEN default ELSE given[1]
         IN  IF ~IntIsDigit(port)
             THEN Fail(r, "The '" \o field \o "' should contain only digits.")
             ELSE IF port < 1 \/ port > MaxPort
             THEN Fail(r, "The '" \o field \o "' should be from 1 to 65535.")
             ELSE Put(r, key, port)

\* lines 886-904
WantRetries(r, aps, exists, details) ==
    IF r.failed THEN r
    ELSE IF ~TruthyInt(aps.retries)
    THEN IF ~exists THEN Put(r, "retries", "3")
         ELSE Put(r, "retries", details["retries"])
    ELSE IF aps.retries[1] < 1 \/ aps.retries[1] > RetriesMax
    THEN Fail(r, "The 'retries' should be from 1 to 3.")
    ELSE Put(r, "retries", IntToStr(aps.retries[1]))

\* WantTimeout without the range test of line 918
WantTimeoutUnchecked(r, aps, exists, details) ==
    IF r.failed THEN r
    ELSE LET default_timeout == IF ~exists THEN "4" ELSE details["timeoutSeconds"]
         IN  IF IsNone(aps.timeout)
             THEN Put(r, "timeoutSeconds", default_timeout)
             ELSE Put(r, "timeoutSeconds", IntToStr(aps.timeout[1]))

\* lines 906-927
WantTimeout(r, aps, exists, details) ==
    IF r.failed THEN r
    ELSE LET default_timeout == IF ~exists THEN "4" ELSE details["timeoutSeconds"]
         IN  IF IsNone(aps.timeout)
             THEN Put(r, "timeoutSeconds", default_timeout)
             ELSE IF aps.timeout[1] < TimeoutMin \/ aps.timeout[1] > TimeoutMax
             THEN Fail(r, "The 'timeout' should be from 2 to 20.")
             ELSE Put(r, "timeoutSeconds", IntToStr(aps.timeout[1]))

\* lines 929-937; role None stands for a playbook without the key
WantRole(r, aps, exists, details) ==
    IF r.failed THEN r
    ELSE IF ~exists
    THEN Put(r, "role", IF IsNone(aps.role) THEN "secondary" ELSE aps.role[1])
    ELSE Put(r, "role", details["role"])

\* lines 949-1021: one pass of the loop over cisco_ise_dtos
IseCredential(cred, exists, details) ==
    LET first == details["ciscoIseDtos"][1]
        d0 == EmptyDict
    IN  IF ~TruthyStr(cred.user_name) /\ ~exists
        THEN [failed |-> TRUE, d |-> d0,
              msg |-> "Missing parameter 'user_name' is required when server_type is ISE."]
        ELSE IF ~TruthySeq(cred.password)
        THEN [failed |-> TRUE, d |-> d0,
              msg |-> "Missing parameter 'password' is required when server_type is ISE."]
        ELSE IF ~(PasswordMinLen <= Len(cred.password[1])
                  /\ Len(cred.password[1]) <= PasswordMaxLen)
        THEN [failed |-> TRUE, d |-> d0, msg |-> ""]
        ELSE IF ~TruthyStr(cred.fqdn) /\ ~exists
        THEN [failed |-> TRUE, d |-> d0,
              msg |-> "Missing parameter 'fqdn' is required when server_type is ISE."]
        ELSE IF ~TruthyStr(cred.ip_address)
        THEN [failed |-> TRUE, d |-> d0,
              msg |-> "Missing parameter 'ip_address' is required when server_type is ISE."]
        ELSE LET d1 == [userName |-> IF TruthyStr(cred.user_name) THEN cred.user_name[1]
                                     ELSE first["userName"],
                        password |-> cred.password[1],
                        fqdn |-> IF TruthyStr(cred.fqdn) THEN cred.fqdn[1]
                                 ELSE first["fqdn"],
                        ipAddress |-> cred.ip_address[1],
                        subscriberName |-> IF ~exists THEN "ersadmin"
                                           ELSE first["subscriberName"]]
                 d2 == IF TruthyStr(cred.description)
                       THEN Update(d1, "description", cred.description[1]) ELSE d1
                 d3 == IF TruthyStr(cred.ssh_key)
                       THEN Update(d2, "sshkey", cred.ssh_key[1]) ELSE d2
             IN  [failed |-> FALSE, d |-> d3, msg |-> ""]

RECURSIVE WantIseCredentials(_, _, _, _, _)
WantIseCredentials(r, dtos, i, exists, details) ==
    IF i > Len(dtos) THEN r
    ELSE LET c == IseCredential(dtos[i], exists, details)
         IN  IF c.failed THEN Fail(r, c.msg)
             ELSE WantIseCredentials(Put(r, "ciscoIseDtos", Append(r.a["ciscoIseDtos"], c.d)),
                                     dtos, i + 1, exists, details)

\* lines 1023-1039 and 1068-1092. The playbooks of this model give no
\* external_cisco_ise_ip_addr_dtos, so lines 1041-1066 add nothing.
WantIseSettings(r, aps, exists, details) ==
    IF r.failed THEN r
    ELSE LET pxgrid == IF ~IsNone(aps.pxgrid_enabled) THEN aps.pxgrid_enabled[1]
                       ELSE IF exists THEN details["pxgridEnabled"] ELSE TRUE
             use_cert == IF ~IsNone(aps.use_dnac_cert_for_pxgrid)
                         THEN aps.use_dnac_cert_for_pxgrid[1]
                         ELSE IF exists THEN details["useDnacCertForPxgrid"] ELSE FALSE
             trusted == IF IsNone(aps.trusted_server) THEN TRUE ELSE aps.trusted_server[1]
             r1 == Put(Put(r, "pxgridEnabled", pxgrid), "useDnacCertForPxgrid", use_cert)
             r2 == [r1 EXCEPT !.w = Update(r1.w, "trusted_server", trusted)]
         IN  IF IsNone(aps.ise_integration_wait_time)
             THEN [r2 EXCEPT !.w = Update(r2.w, "ise_integration_wait_time", DefaultIseWaitTime)]
             ELSE IF aps.ise_integration_wait_time[1] < 1
                     \/ aps.ise_integration_wait_time[1] > IseWaitTimeMax
             THEN Fail(r2, "The ise_integration_wait_time should be from 1 to 120 seconds.")
             ELSE [r2 EXCEPT !.w = Update(r2.w, "ise_integration_wait_time",
                                          aps.ise_integration_wait_time[1])]

\* WantIse that takes cisco_ise_dtos as optional
WantIseOptional(r, aps, exists, details) ==
    IF r.failed \/ ~r.a["isIseEnabled"] THEN r
    ELSE IF ~TruthySeq(aps.cisco_ise_dtos)
    THEN r
    ELSE WantIseSettings(
            WantIseCredentials(Put(r, "ciscoIseDtos", <<>>), aps.cisco_ise_dtos[1], 1,
                               exists, details),
            aps, exists, details)

\* lines 939-1092
WantIse(r, aps, exists, details) ==
    IF r.failed \/ ~r.a["isIseEnabled"] THEN r
    ELSE IF ~TruthySeq(aps.cisco_ise_dtos)
    THEN Fail(r, "Missing parameter 'cisco_ise_dtos' required when server_type is 'ISE'.")
    ELSE WantIseSettings(
            WantIseCredentials(Put(r, "ciscoIseDtos", <<>>), aps.cisco_ise_dtos[1], 1,
                               exists, details),
            aps, exists, details)

\* lines 730-1099: the sections in the order of the code
get_want_authentication_policy_server(aps, exists, details) ==
    LET r0 == [failed |-> FALSE, msg |-> "", a |-> EmptyDict, w |-> EmptyDict]
        r1 == WantServerType(r0, aps, exists, details)
        r2 == WantSharedSecret(r1, aps, exists, details)
        r3 == WantProtocol(r2, aps, exists, details)
        r4 == WantEncryption(r3, aps, exists, details)
        r5 == WantPort(r4, aps.authentication_port, exists, details,
                       "authenticationPort", "authentication_port", DefaultAuthenticationPort)
        r6 == WantPort(r5, aps.accounting_port, exists, details,
                       "accountingPort", "accounting_port", DefaultAccountingPort)
        r7 == WantRetries(r6, aps, exists, details)
        r8 == WantTimeout(r7, aps, exists, details)
        r9 == WantRole(r8, aps, exists, details)
        r10 == WantIse(r9, aps, exists, details)
    IN  IF r10.failed
        THEN [status |-> "failed", msg |-> r10.msg, want |-> r10.w]
        ELSE [status |-> "success",
              msg |-> "Collecting the Authentication and Policy Server details from the playbook",
              want |-> Update(r10.w, "authenticationPolicyServer", r10.a)]

-----------------------------------------------------------------------------
(* format_payload_for_update *)

update_params == <<"authenticationPort", "accountingPort", "role">>

\* lines 1240-1251: the loop over update_params, from item i on
RECURSIVE FormatUpdateParams(_, _, _)
FormatUpdateParams(have_auth_server, want_auth_server, i) ==
    IF i > Len(update_params)
    THEN [status |-> "success", msg |-> "", want |-> want_auth_server]
    ELSE LET item == update_params[i]
             have_item == Get(have_auth_server, item)
             want_item == Get(want_auth_server, item)
         IN  IF IsNone(want_item)
             THEN IF IsNone(have_item)
                  THEN FormatUpdateParams(have_auth_server, want_auth_server, i + 1)
                  ELSE FormatUpdateParams(have_auth_server,
                                          Update(want_auth_server, item, have_item[1]), i + 1)
             ELSE IF have_item # want_item
             THEN [status |-> "failed",
                   msg |-> "Update does not support modifying '['authenticationPort', 'accountingPort', 'role']'. Here you are trying to update '"
                           \o item \o "'.",
                   want |-> want_auth_server]
             ELSE FormatUpdateParams(have_auth_server, want_auth_server, i + 1)

ProtocolUpdateMsg(from, to) ==
    "'protocol' can only be updated to 'RADIUS_TACACS' not from '" \o from \o "' to '" \o to \o "'"

\* format_payload_for_update without the protocol restriction of lines 1253-1260
format_payload_any_protocol(have_auth_server, want_auth_server) ==
    LET r == FormatUpdateParams(have_auth_server, want_auth_server, 1)
    IN  IF r.status = "failed" THEN r
        ELSE [r EXCEPT !.msg = "Successfully formatted the parameter of the payload for updating the authentication and policy server."]

\* lines 1227-1265
format_payload_for_update(have_auth_server, want_auth_server) ==
    LET r == FormatUpdateParams(have_auth_server, want_auth_server, 1)
        have_protocol == have_auth_server["protocol"]
        want_protocol == want_auth_server["protocol"]
    IN  IF r.status = "failed" THEN r
        ELSE IF have_protocol # want_protocol /\ want_protocol # "RADIUS_TACACS"
        THEN [r EXCEPT !.status = "failed",
                       !.msg = ProtocolUpdateMsg(have_protocol, want_protocol)]
        ELSE [r EXCEPT !.msg = "Successfully formatted the parameter of the payload for updating the authentication and policy server."]

-----------------------------------------------------------------------------
(* Task progress texts and the polling loops *)

LowerWord(w) ==
    CASE w = "Successfully" -> "successfully"
      [] w = "Operation" -> "operation"
      [] w = "AAA" -> "aaa"
      [] w = "Task" -> "task"
      [] OTHER -> w

\* progress.lower()
Lower(text) == [i \in 1..Len(text) |-> LowerWord(text[i])]

\* "phrase in text" at the granularity of words
Contains(text, phrase) ==
    \E i \in 0..(Len(text) - Len(phrase)) :
        \A j \in 1..Len(phrase) : text[i + j] = phrase[j]

RECURSIVE JoinWords(_)
JoinWords(text) ==
    IF Len(text) = 0 THEN ""
    ELSE IF Len(text) = 1 THEN text[1]
    ELSE text[1] \o " " \o JoinWords(Tail(text))

CreatedString == <<"successfully", "created", "aaa", "settings">>
UpdatedString == <<"successfully", "updated", "aaa", "settings">>
DeletedString == <<"successfully", "deleted", "aaa", "settings">>
OperationString == <<"operation", "sucessful">>

AddFunction == "add_authentication_and_policy_server_access_configuration"
EditFunction == "edit_authentication_and_policy_server_access_configuration"
DeleteFunction == "delete_authentication_and_policy_server_access_configuration"
AcceptFunction == "accept_cisco_ise_server_certificate_for_cisco_ise_server_integration"

\* validation_string_set of the add call (line 1294) and of the edit call (line 1385)
validation_string_set(function_name) ==
    IF function_name = AddFunction THEN <<CreatedString, OperationString>>
    ELSE IF function_name = EditFunction THEN <<UpdatedString, OperationString>>
    ELSE <<DeletedString>>

\* lines 1209-1214: the first validation string, in the order of the set, that
\* the lowered progress contains; <<>> when there is none
RECURSIVE FirstMatch(_, _, _)
FirstMatch(strings, progress, i) ==
    IF i > Len(strings) THEN None
    ELSE IF Contains(Lower(progress), strings[i]) THEN Some(strings[i])
    ELSE FirstMatch(strings, progress, i + 1)

TimeoutMsg(max_timeout, task_id, api_name) ==
    "Max timeout of " \o IntToStr(max_timeout)
    \o " sec has reached for the execution id '" \o task_id \o "'."
    \o "Exiting the loop due to unexpected API '" \o api_name \o "' status."

\* module_utils check_task_response_status: its message at the timeout
TaskTimeoutMsg(max_timeout, task_id, api_name) ==
    "Max timeout of " \o IntToStr(max_timeout)
    \o " sec has reached for the execution id '" \o task_id \o "'. "
    \o "Exiting the loop due to unexpected API '" \o api_name \o "' status."

\* line 1187: the taskId in the response of the controller to a write call
TaskId == "task-1"

\* max_timeout is in seconds, the clock of the model in milliseconds
MilliSeconds(seconds) == seconds * 1000

\* line 1189: sleep_time = self.max_timeout / 1000 (seconds)
sleep_time(max_timeout) == MilliSeconds(max_timeout) \div SleepDivisor

\* line 1192: (end_time - start_time) >= self.max_timeout
TimedOut(elapsed, max_timeout) == elapsed >= MilliSeconds(max_timeout)

\* lines 1190-1223: one pass of the loop of check_auth_server_response_status.
\* s = [status, msg, changed, validation_string]; task_details is the answer
\* of get_task_details. The result says whether the loop ends (done).
AuthPollPass(s, elapsed, max_timeout, task_details, strings, api_name) ==
    IF TimedOut(elapsed, max_timeout)
    THEN [s EXCEPT !.status = "failed", !.msg = TimeoutMsg(max_timeout, TaskId, api_name)] @@ [done |-> TRUE, polled |-> FALSE]
    ELSE IF task_details.isError = TRUE
    THEN [s EXCEPT !.status = "failed",
                   !.msg = IF TruthyStr(task_details.failureReason)
                           THEN task_details.failureReason[1]
                           ELSE JoinWords(task_details.progress)]
         @@ [done |-> TRUE, polled |-> TRUE]
    ELSE LET m == FirstMatch(strings, task_details.progress, 1)
             s1 == IF IsNone(m) THEN s
                   ELSE [s EXCEPT !.changed = TRUE, !.validation_string = m[1],
                                  !.status = "success"]
         IN  s1 @@ [done |-> s1.changed = TRUE, polled |-> TRUE]

\* module_utils check_task_response_status: one pass of its loop (the delete path)
TaskPollPass(s, elapsed, max_timeout, task_details, strings, api_name) ==
    IF TimedOut(elapsed, max_timeout)
    THEN [s EXCEPT !.status = "failed", !.msg = TaskTimeoutMsg(max_timeout, TaskId, api_name)] @@ [done |-> TRUE, polled |-> FALSE]
    ELSE IF task_details.isError = TRUE
    THEN [s EXCEPT !.status = "failed",
                   !.msg = IF TruthyStr(task_details.failureReason)
                           THEN task_details.failureReason[1]
                           ELSE JoinWords(task_details.progress)]
         @@ [done |-> TRUE, polled |-> TRUE]
    ELSE IF Contains(Lower(task_details.progress), strings[1])
    THEN [s EXCEPT !.changed = TRUE, !.status = "success"] @@ [done |-> TRUE, polled |-> TRUE]
    ELSE s @@ [done |-> FALSE, polled |-> TRUE]

-----------------------------------------------------------------------------
(* Cisco Catalyst Center: what the controller does with the calls *)

\* The server the controller stores for an add payload, or for an edit payload
\* over the server it holds (old): it stores the values it was sent.
StoredServer(old, payload) ==
    LET kept == (DOMAIN payload) \cap {"ipAddress", "protocol", "port", "role",
                    "authenticationPort", "accountingPort", "pxgridEnabled",
                    "useDnacCertForPxgrid", "encryptionScheme", "ciscoIseDtos"}
        keys == (DOMAIN old) \cup kept
                    \cup {"instanceUuid", "iseEnabled", "retries", "timeoutSeconds"}
    IN  [k \in keys |->
            IF k = "instanceUuid"
            THEN (IF k \in DOMAIN old THEN old[k] ELSE "uuid-" \o payload["ipAddress"])
            ELSE IF k = "iseEnabled" THEN payload["isIseEnabled"]
            ELSE IF k = "retries" THEN PyString(payload["retries"])
            ELSE IF k = "timeoutSeconds" THEN PyString(payload["timeoutSeconds"])
            ELSE IF k \in kept THEN payload[k]
            ELSE old[k]]

RemoteAdd(servers, payload) ==
    [servers EXCEPT ![payload["ipAddress"]] = Some(StoredServer(EmptyDict, payload))]

RemoteEdit(servers, payload) ==
    [ip \in DOMAIN servers |->
        IF ~IsNone(servers[ip]) /\ servers[ip][1]["instanceUuid"] = payload["id"]
        THEN Some(StoredServer(servers[ip][1], payload))
        ELSE servers[ip]]

RemoteDelete(servers, id) ==
    [ip \in DOMAIN servers |->
        IF ~IsNone(servers[ip]) /\ servers[ip][1]["instanceUuid"] = id
        THEN None ELSE servers[ip]]

RemoteApply(servers, function_name, payload) ==
    IF function_name = AddFunction THEN RemoteAdd(servers, payload)
    ELSE IF function_name = EditFunction THEN RemoteEdit(servers, payload)
    ELSE RemoteDelete(servers, payload["id"])

InProgressText == <<"Task", "in", "progress">>
FailedText == <<"Operation", "failed">>

CompletionTexts(function_name) ==
    IF function_name = AddFunction
    THEN {<<"Successfully", "created", "AAA", "settings">>, <<"Operation", "sucessful">>}
    ELSE IF function_name = EditFunction
    THEN {<<"Successfully", "updated", "AAA", "settings">>, <<"Operation", "sucessful">>}
    ELSE {<<"Successfully", "deleted", "AAA", "settings">>}

\* The answers get_task_details can give for a task the controller completes
\* (fate "ok") and for a task it fails (fate "error")
TaskAnswers(fate, function_name) ==
    {[isError |-> FALSE, failureReason |-> None, progress |-> InProgressText]}
    \cup (IF fate = "ok"
          THEN {[isError |-> FALSE, failureReason |-> None, progress |-> t] :
                    t \in CompletionTexts(function_name)}
          ELSE {[isError |-> TRUE, failureReason |-> Some("Internal error"),
                 progress |-> FailedText],
                [isError |-> TRUE, failureReason |-> None, progress |-> FailedText]})

\* The time (ms) one get_task_details call may take: half of max_timeout less
\* the sleep, so that the loop's exit test reads max_timeout exactly on its
\* third pass, or twice that
Latencies(max_timeout) ==
    {MilliSeconds(max_timeout) \div 2 - sleep_time(max_timeout),
     MilliSeconds(max_timeout) - sleep_time(max_timeout)}

NoTask == [function |-> "", fate |-> "", elapsed |-> 0, seen |-> {}, is_error |-> FALSE,
           last_poll |-> -1]

AllStrings == {CreatedString, UpdatedString, DeletedString, OperationString}

-----------------------------------------------------------------------------
(* main: the loop over params.config *)

Config == playbook[idx]
Aps == Config.authentication_policy_server
Ip == Aps[1].server_ip_address[1]
WantServer == want["authenticationPolicyServer"]

\* check_return_status with status "failed": module.fail_json
FailJson == pc' = "failed" /\ idx' = idx

\* an unhandled Python exception ends the module
Crash == pc' = "crashed" /\ idx' = idx

\* the next pass of the for loop of main, or module.exit_json after the last
Advance ==
    /\ idx' = idx + 1
    /\ pc' = IF idx < Len(playbook) THEN "get_have" ELSE "exit"

\* lines 1619-1621: after get_diff_state_apply, verify when config_verify is set
AfterDiff == IF params.config_verify THEN pc' = "verify" /\ idx' = idx ELSE Advance

SetResponse(res, ip, v) == [res EXCEPT !.response = Update(res.response, ip, v)]
SetMsg(res, ip, text) == [res EXCEPT !.msg = Update(res.msg, ip, text)]

\* lines 433-503 and 1612; the playbooks of the model are lists of dicts
validate_input ==
    /\ pc = "start"
    /\ IF Len(playbook) = 0
       THEN /\ msg' = "config not available in playbook for validation"
            /\ pc' = "exit" /\ idx' = idx
       ELSE /\ msg' = "Successfully validated input from the playbook"
            /\ pc' = "get_have" /\ idx' = 1
    /\ status' = "success"
    /\ UNCHANGED <<params, playbook, remote, run, have, want, result,
                   validation_string, task, calls, first_result>>

\* lines 1615-1616: reset_values, get_have(config).check_return_status()
get_have ==
    /\ pc = "get_have"
    /\ want' = EmptyDict /\ calls' = <<>> /\ task' = NoTask
    /\ IF IsNone(Aps)
       THEN /\ have' = EmptyDict
            /\ msg' = "Successfully retrieved the details from the Cisco Catalyst Center"
            /\ status' = "success"
            /\ pc' = (IF params.state # "deleted" THEN "get_want" ELSE "get_diff")
            /\ idx' = idx
       ELSE IF IsNone(Aps[1].server_ip_address)
       THEN /\ have' = EmptyDict
            /\ msg' = "Missing parameter 'server_ip_address' is required."
            /\ status' = "failed"
            /\ FailJson
       ELSE /\ have' = [authenticationPolicyServer |-> auth_server_exists(remote, Ip)]
            /\ msg' = "Successfully retrieved the details from the Cisco Catalyst Center"
            /\ status' = "success"
            /\ pc' = (IF params.state # "deleted" THEN "get_want" ELSE "get_diff")
            /\ idx' = idx
    /\ UNCHANGED <<params, playbook, remote, run, result, validation_string,
                   first_result>>

\* lines 1101-1119 and 1618: get_want(config).check_return_status()
get_want ==
    /\ pc = "get_want"
    /\ IF IsNone(Aps)
       THEN /\ want' = want
            /\ msg' = "Successfully retrieved details from the playbook"
            /\ status' = "success"
            /\ pc' = "get_diff" /\ idx' = idx
       ELSE LET r == get_want_authentication_policy_server(
                        Aps[1], HaveExists,
                        IF HaveExists THEN HaveDetails ELSE EmptyDict)
            IN  /\ want' = r.want
                /\ IF r.status = "failed"
                   THEN msg' = r.msg /\ status' = "failed" /\ FailJson
                   ELSE /\ msg' = "Successfully retrieved details from the playbook"
                        /\ status' = "success"
                        /\ pc' = "get_diff" /\ idx' = idx
    /\ UNCHANGED <<params, playbook, remote, run, have, result, validation_string,
                   task, calls, first_result>>

\* self.dnac._exec of a write call and the entry of the polling method, lines
\* 1181-1188: the controller refuses the call (errorcode) or starts a task,
\* which it completes ("ok") or fails ("error")
Submit(function_name, payload, msg_before) ==
    /\ calls' = Append(calls, [function |-> function_name, params |-> payload])
    /\ \E fate \in {"ok", "error", "rejected"} :
        IF fate = "rejected"
        THEN /\ msg' = "Bad request" /\ status' = "failed"
             /\ FailJson
             /\ UNCHANGED <<remote, task>>
        ELSE /\ task' = [function |-> function_name, fate |-> fate, elapsed |-> 0,
                         seen |-> {}, is_error |-> FALSE, last_poll |-> -1]
             /\ remote' = IF fate = "ok"
                          THEN RemoteApply(remote, function_name, payload)
                          ELSE remote
             /\ msg' = msg_before /\ status' = status
             /\ pc' = "poll" /\ idx' = idx

\* get_diff_merged / get_diff_deleted for a config item without
\* authentication_policy_server
diff_nothing ==
    /\ pc = "get_diff" /\ IsNone(Aps)
    /\ AfterDiff
    /\ UNCHANGED <<params, playbook, remote, run, have, want, status, msg, result,
                   validation_string, task, calls, first_result>>

\* lines 1279-1295: the server does not exist, create it
create_auth_policy_server ==
    /\ pc = "get_diff" /\ params.state = "merged" /\ ~IsNone(Aps)
    /\ ~HaveExists
    /\ result' = SetResponse(result, Ip, EmptyDict)
    /\ Submit(AddFunction, WantServer, msg)
    /\ UNCHANGED <<params, playbook, run, have, want, validation_string,
                   first_result>>

\* lines 1350-1351: format_payload_for_update(...).check_return_status() fails
update_restricted ==
    /\ pc = "get_diff" /\ params.state = "merged" /\ ~IsNone(Aps)
    /\ HaveExists
    /\ LET f == format_payload_for_update(HaveDetails, WantServer)
       IN  /\ f.status = "failed"
           /\ want' = Update(want, "authenticationPolicyServer", f.want)
           /\ msg' = f.msg /\ status' = "failed"
    /\ result' = SetResponse(result, Ip, EmptyDict)
    /\ FailJson
    /\ UNCHANGED <<params, playbook, remote, run, have, validation_string, task,
                   calls, first_result>>

\* line 1352-1355: the test that decides between "no update" and the edit call
UpdateNeeded(have_details, want_details) ==
    have_details["isIseEnabled"] = TRUE
    \/ requires_update(have_details, want_details, get_obj_params)

\* lines 1350-1368: the server exists and needs no update
update_not_required ==
    /\ pc = "get_diff" /\ params.state = "merged" /\ ~IsNone(Aps)
    /\ HaveExists
    /\ LET f == format_payload_for_update(HaveDetails, WantServer)
       IN  /\ f.status = "success"
           /\ ~UpdateNeeded(HaveDetails, f.want)
           /\ want' = Update(want, "authenticationPolicyServer", f.want)
           /\ msg' = f.msg /\ status' = "success"
    /\ result' = SetMsg(SetResponse(result, Ip,
                            [params |-> HaveDetails, Id |-> HaveId[1]]),
                        Ip, "Authentication and Policy Server doesn't require an update")
    /\ AfterDiff
    /\ UNCHANGED <<params, playbook, remote, run, have, validation_string, task,
                   calls, first_result>>

\* lines 1350-1386: the server exists and is updated
update_auth_policy_server ==
    /\ pc = "get_diff" /\ params.state = "merged" /\ ~IsNone(Aps)
    /\ HaveExists
    /\ LET f == format_payload_for_update(HaveDetails, WantServer)
       IN  /\ f.status = "success"
           /\ UpdateNeeded(HaveDetails, f.want)
           /\ want' = Update(want, "authenticationPolicyServer", f.want)
           /\ Submit(EditFunction, Update(f.want, "id", HaveId[1]), f.msg)
    /\ result' = SetResponse(result, Ip, EmptyDict)
    /\ UNCHANGED <<params, playbook, run, have, validation_string,
                   first_result>>

\* One pass of the polling loop: check_auth_server_response_status for the add
\* and edit calls, check_task_response_status for the delete call. A pass that
\* does not end the loop takes the time of get_task_details and of the sleep.
poll_task ==
    /\ pc = "poll"
    /\ \E latency \in Latencies(params.dnac_api_task_timeout),
          task_details \in TaskAnswers(task.fate, task.function) :
        LET s == [status |-> status, msg |-> msg, changed |-> result.changed,
                  validation_string |-> validation_string]
            max_timeout == params.dnac_api_task_timeout
            strings == validation_string_set(task.function)
            r == IF task.function = DeleteFunction
                 THEN TaskPollPass(s, task.elapsed, max_timeout, task_details,
                                   strings, task.function)
                 ELSE AuthPollPass(s, task.elapsed, max_timeout, task_details,
                                   strings, task.function)
        IN  /\ status' = r.status /\ msg' = r.msg
            /\ result' = [result EXCEPT !.changed = r.changed]
            /\ validation_string' = r.validation_string
            /\ task' = [task EXCEPT
                   !.elapsed = IF r.done THEN @ ELSE @ + latency + sleep_time(max_timeout),
                   !.seen = IF r.polled
                            THEN @ \cup {x \in AllStrings :
                                            Contains(Lower(task_details.progress), x)}
                            ELSE @,
                   !.is_error = r.polled /\ task_details.isError,
                   !.last_poll = IF r.polled THEN task.elapsed ELSE @]
            /\ pc' = IF r.done THEN "polled" ELSE "poll"
    /\ UNCHANGED <<params, playbook, remote, run, idx, have, want, calls,
                   first_result>>

IdErrorMsg(ip) ==
    "Error while retrieving the Authentication and Policy Server " \o ip \o " id."

IseStateMsg(ip, state, trusted_server, wait_time) ==
    IF state = "INPROGRESS"
    THEN "The Cisco ISE server '" \o ip \o "' integration is incomplete, currently in 'INPROGRESS' state. "
         \o "The integration has exceeded the expected duration of '"
         \o IntToStr(wait_time) \o "' second(s)."
    ELSE "The Cisco ISE server '" \o ip \o "' integration has failed and in 'FAILED' state."
         \o (IF trusted_server = FALSE
             THEN " This is the first time Cisco Catalyst Center has encountered "
                  \o "this certificate from Cisco ISE, and it is not yet trusted."
             ELSE "")

\* line 1300: the test that guards the certificate step
NeedsCertificate(is_ise_server, string) ==
    is_ise_server = TRUE /\ string = OperationString

\* lines 1336-1346
RecordCreated ==
    /\ result' = SetMsg(SetResponse(result, Ip, [details |-> WantServer]),
                        Ip, "Authentication and Policy Server Created Successfully")
    /\ AfterDiff

\* lines 1296-1346: update_auth_policy_server after the add task was polled.
\* accept_cisco_ise_server_certificate (lines 1121-1165) looks the server up;
\* without an id it sets msg and the log call raises, which the method swallows.
\* answer is what get_authentication_and_policy_servers then returns: no
\* "response", or the state of the server.
create_done ==
    /\ pc = "polled" /\ task.function = AddFunction
    /\ IF status = "failed"
       THEN FailJson /\ UNCHANGED <<msg, status, result, calls>>
       ELSE IF ~NeedsCertificate(WantServer["isIseEnabled"], validation_string)
       THEN RecordCreated /\ UNCHANGED <<msg, status, calls>>
       ELSE LET server == auth_server_exists(remote, Ip)
                msg1 == IF IsNone(server.id) THEN IdErrorMsg(Ip) ELSE msg
            IN  /\ calls' = IF IsNone(server.id) THEN calls
                            ELSE Append(calls,
                                    [function |-> AcceptFunction,
                                     params |-> [id |-> server.id[1],
                                                 isCertAcceptedByUser |-> want["trusted_server"]]])
                /\ \E answer \in {"none", "ACTIVE", "FAILED", "INPROGRESS"} :
                    IF answer = "none"
                    THEN /\ msg' = "Failed to retrieve the information from the API 'get_authentication_and_policy_servers' of "
                                   \o Ip \o "."
                         /\ status' = "failed" /\ FailJson /\ result' = result
                    ELSE IF ~server.exists
                    THEN msg' = msg1 /\ Crash /\ UNCHANGED <<status, result>>
                    ELSE IF answer \in {"FAILED", "INPROGRESS"}
                    THEN /\ msg' = IseStateMsg(Ip, answer, want["trusted_server"],
                                              want["ise_integration_wait_time"])
                         /\ status' = "failed" /\ FailJson /\ result' = result
                    ELSE msg' = msg1 /\ status' = status /\ RecordCreated
    /\ UNCHANGED <<params, playbook, remote, run, have, want, validation_string,
                   task, first_result>>

\* lines 1387-1398: update_auth_policy_server after the edit task was polled
update_done ==
    /\ pc = "polled" /\ task.function = EditFunction
    /\ IF status = "failed"
       THEN FailJson /\ result' = result
       ELSE /\ result' = SetMsg(SetResponse(result, Ip, [Id |-> HaveId[1]]),
                                Ip, "Authentication and Policy Server Updated Successfully")
            /\ AfterDiff
    /\ UNCHANGED <<params, playbook, remote, run, have, want, status, msg,
                   validation_string, task, calls, first_result>>

\* delete_auth_policy_server without the test of lines 1432-1438
delete_without_test ==
    /\ pc = "get_diff" /\ params.state = "deleted" /\ ~IsNone(Aps)
    /\ ~HaveExists
    /\ Submit(DeleteFunction, [id |-> "None"], msg)
    /\ UNCHANGED <<params, playbook, run, have, want, result, validation_string,
                   first_result>>

\* lines 1430-1438: nothing to delete
delete_not_found ==
    /\ pc = "get_diff" /\ params.state = "deleted" /\ ~IsNone(Aps)
    /\ ~HaveExists
    /\ result' = SetResponse(result, Ip, "Authentication and Policy Server not found")
    /\ msg' = "Authentication and Policy Server not found."
    /\ status' = "success"
    /\ AfterDiff
    /\ UNCHANGED <<params, playbook, remote, run, have, want, validation_string,
                   task, calls, first_result>>

\* delete_auth_policy_server that gives the server_ip_address as the id
delete_by_ip_address ==
    /\ pc = "get_diff" /\ params.state = "deleted" /\ ~IsNone(Aps)
    /\ HaveExists
    /\ Submit(DeleteFunction, [id |-> Ip], msg)
    /\ UNCHANGED <<params, playbook, run, have, want, result, validation_string,
                   first_result>>

\* lines 1440-1451: the delete call
delete_auth_policy_server ==
    /\ pc = "get_diff" /\ params.state = "deleted" /\ ~IsNone(Aps)
    /\ HaveExists
    /\ Submit(DeleteFunction, [id |-> HaveId[1]], msg)
    /\ UNCHANGED <<params, playbook, run, have, want, result, validation_string,
                   first_result>>

\* lines 1451-1462: after the delete task was polled
delete_done ==
    /\ pc = "polled" /\ task.function = DeleteFunction
    /\ IF status = "failed"
       THEN FailJson /\ UNCHANGED <<msg, status, result>>
       ELSE /\ result' = SetMsg(SetResponse(result, Ip, [TaskId |-> TaskId]),
                                Ip, "Authentication and Policy Server deleted successfully.")
            /\ msg' = "Authentication and Policy Server - " \o Ip \o " deleted successfully."
            /\ status' = "success"
            /\ AfterDiff
    /\ UNCHANGED <<params, playbook, remote, run, have, want, validation_string,
                   task, calls, first_result>>

check_list == <<"isIseEnabled", "ipAddress", "pxgridEnabled", "useDnacCertForPxgrid",
                "port", "protocol", "retries", "role", "timeoutSeconds",
                "encryptionScheme">>

\* "if v:" for the value of key k of a server dict
TruthyField(k, v) ==
    IF IsNone(v) THEN FALSE
    ELSE IF k \in {"isIseEnabled", "pxgridEnabled", "useDnacCertForPxgrid"} THEN v[1] = TRUE
    ELSE IF k = "port" THEN v[1] # 0
    ELSE v[1] # ""

\* lines 1508-1514
NotApplied(auth_server_have, auth_server_want) ==
    \E i \in 1..Len(check_list) :
        LET h == Get(auth_server_have, check_list[i])
            w == Get(auth_server_want, check_list[i])
        IN  TruthyField(check_list[i], h) /\ TruthyField(check_list[i], w) /\ h # w

NotAppliedMsg ==
    "Authentication and Policy Server Config is not applied to the Cisco Catalyst Center."

\* lines 1481-1524
verify_diff_merged ==
    /\ pc = "verify" /\ params.state = "merged"
    /\ IF IsNone(Aps)
       THEN /\ have' = have
            /\ msg' = "Successfully validated the Authentication and Policy Server."
            /\ status' = "success" /\ result' = result /\ Advance
       ELSE LET found == auth_server_exists(remote, Ip)
            IN  /\ have' = Update(have, "authenticationPolicyServer", found)
                /\ IF ~found.exists
                   THEN /\ msg' = "Successfully retrieved the details from the Cisco Catalyst Center"
                        /\ status' = "success" /\ result' = result /\ Crash
                   ELSE IF NotApplied(found.details[1], WantServer)
                   THEN /\ msg' = NotAppliedMsg /\ status' = "failed"
                        /\ result' = result /\ FailJson
                   ELSE /\ msg' = "Successfully validated the Authentication and Policy Server."
                        /\ status' = "success"
                        /\ result' = [result EXCEPT !.validation = "Success"]
                        /\ Advance
    /\ UNCHANGED <<params, playbook, remote, run, want, validation_string, task,
                   calls, first_result>>

\* lines 1526-1560; line 1540 reads the server_ip_address before it tests
\* that the config item has an authentication_policy_server
verify_diff_deleted ==
    /\ pc = "verify" /\ params.state = "deleted"
    /\ IF IsNone(Aps)
       THEN /\ have' = have
            /\ msg' = "Successfully retrieved the details from the Cisco Catalyst Center"
            /\ status' = "success" /\ result' = result /\ Crash
       ELSE LET found == auth_server_exists(remote, Ip)
            IN  /\ have' = Update(have, "authenticationPolicyServer", found)
                /\ IF found.exists
                   THEN /\ msg' = NotAppliedMsg /\ status' = "failed"
                        /\ result' = result /\ FailJson
                   ELSE /\ msg' = "Successfully validated the absence of Authentication and Policy Server."
                        /\ status' = "success"
                        /\ result' = [result EXCEPT !.validation = "Success"]
                        /\ Advance
    /\ UNCHANGED <<params, playbook, remote, run, want, validation_string, task,
                   calls, first_result>>

NewResult == [changed |-> FALSE, msg |-> EmptyDict, response |-> EmptyDict,
              validation |-> ""]

\* The playbook is run a second time, by a new module process, against the
\* controller as the first run left it.
run_again ==
    /\ pc = "exit" /\ run = 1
    /\ run' = 2 /\ pc' = "start" /\ idx' = 0
    /\ first_result' = result
    /\ have' = EmptyDict /\ want' = EmptyDict
    /\ status' = "success" /\ msg' = ""
    /\ result' = NewResult /\ validation_string' = <<>>
    /\ task' = NoTask /\ calls' = <<>>
    /\ UNCHANGED <<params, playbook, remote>>

-----------------------------------------------------------------------------
(* Bounded inputs: controller contents and playbooks *)

\* longest playbook of the specification SpecSeq
MaxItems == 2

IP1 == "10.0.0.1"
IP2 == "10.0.0.2"
IPs == {IP1, IP2}

\* servers the controller may hold before the module runs
RadiusServer(ip) ==
    [instanceUuid |-> "uuid-" \o ip, ipAddress |-> ip, iseEnabled |-> FALSE,
     protocol |-> "RADIUS", retries |-> PyInt(3), timeoutSeconds |-> PyInt(4),
     authenticationPort |-> 1812, accountingPort |-> 1813, role |-> "secondary",
     port |-> 49, pxgridEnabled |-> FALSE, useDnacCertForPxgrid |-> FALSE]

TacacsServer(ip) ==
    [instanceUuid |-> "uuid-" \o ip, ipAddress |-> ip, iseEnabled |-> FALSE,
     protocol |-> "TACACS", retries |-> PyInt(1), timeoutSeconds |-> PyInt(10),
     authenticationPort |-> 1645, accountingPort |-> 1646, role |-> "primary",
     port |-> 1049, pxgridEnabled |-> FALSE, useDnacCertForPxgrid |-> FALSE]

IseServer(ip) ==
    [instanceUuid |-> "uuid-" \o ip, ipAddress |-> ip, iseEnabled |-> TRUE,
     protocol |-> "RADIUS", retries |-> PyInt(3), timeoutSeconds |-> PyInt(4),
     authenticationPort |-> 1812, accountingPort |-> 1813, role |-> "primary",
     port |-> 49, pxgridEnabled |-> TRUE, useDnacCertForPxgrid |-> FALSE,
     ciscoIseDtos |-> << [userName |-> "admin", fqdn |-> "ise.example.com",
                          ipAddress |-> ip, subscriberName |-> "ersadmin",
                          description |-> "ISE"] >>]

NoServers == [ip \in IPs |-> None]

WideRemotes ==
    {NoServers} \cup
    {[NoServers EXCEPT ![IP1] = Some(srv)] :
        srv \in {RadiusServer(IP1), TacacsServer(IP1), IseServer(IP1)}}

SeqRemotes ==
    {[ip \in IPs |-> IF ip = IP1 THEN s1 ELSE s2] :
        s1 \in {None, Some(RadiusServer(IP1)), Some(IseServer(IP1))},
        s2 \in {None, Some(RadiusServer(IP2))}}

\* an authentication_policy_server that gives only the server_ip_address
BlankAps(ip) ==
    [server_type |-> None, server_ip_address |-> Some(ip), shared_secret |-> None,
     protocol |-> None, encryption_scheme |-> None,
     message_authenticator_code_key |-> None, encryption_key |-> None,
     authentication_port |-> None, accounting_port |-> None, retries |-> None,
     timeout |-> None, role |-> None, cisco_ise_dtos |-> None,
     pxgrid_enabled |-> None, use_dnac_cert_for_pxgrid |-> None,
     trusted_server |-> None, ise_integration_wait_time |-> None]

With(aps, fields) == fields @@ aps

GoodSecret == Rep("s", 4)
GoodPassword == Rep("p", 8)

Credential(password) ==
    [user_name |-> Some("admin"), password |-> password,
     fqdn |-> Some("ise.example.com"), ip_address |-> Some("10.0.0.9"),
     description |-> None, ssh_key |-> None]

GoodCredential == Credential(Some(GoodPassword))

AaaAps(ip) == With(BlankAps(ip), [server_type |-> Some("AAA"),
                                   shared_secret |-> Some(GoodSecret)])

IseAps(ip) == With(BlankAps(ip), [server_type |-> Some("ISE"),
                                   shared_secret |-> Some(GoodSecret),
                                   cisco_ise_dtos |-> Some(<<GoodCredential>>)])

Item(aps) == [authentication_policy_server |-> Some(aps)]
ItemWithoutServer == [authentication_policy_server |-> None]

\* protocol, retries and timeout: the values the update compares
TuneFamily(ip) ==
    {With(AaaAps(ip), [protocol |-> p, retries |-> r, timeout |-> t]) :
        p \in {None, Some("RADIUS"), Some("TACACS"), Some("RADIUS_TACACS"), Some("LDAP")},
        r \in {None, Some(1), Some(3)},
        t \in {None, Some(4), Some(20)}}
    \cup {With(AaaAps(ip), [retries |-> r]) : r \in {Some(0), Some(4)}}
    \cup {With(AaaAps(ip), [timeout |-> t]) : t \in {Some(0), Some(1), Some(2), Some(21)}}

\* every field the update may not change, given together with a retries value
FixedFamily(ip) ==
    {With(BlankAps(ip),
          [server_type |-> Some(ty), shared_secret |-> Some(GoodSecret),
           encryption_scheme |-> Some("KEYWRAP"),
           message_authenticator_code_key |-> Some(Rep("m", 20)),
           encryption_key |-> Some(Rep("e", 16)),
           authentication_port |-> Some(1645), accounting_port |-> Some(1646),
           role |-> Some(ro), retries |-> r,
           cisco_ise_dtos |-> IF ty = "ISE" THEN Some(<<GoodCredential>>) ELSE None]) :
        ty \in {"AAA", "ISE"}, ro \in {"primary", "secondary"}, r \in {None, Some(1)}}

SecretFamily(ip) ==
    {With(AaaAps(ip), [shared_secret |-> x]) :
        x \in {None, Some(<<>>), Some(Rep("s", 3)), Some(Rep("s", 100)),
               Some(Rep("s", 101)), Some(<<"a", " ", "b", "c">>),
               Some(<<"a", "b", "?", "c">>), Some(<<"<", "a", "b", "c">>)}}

EncryptionFamily(ip) ==
    {With(AaaAps(ip), [encryption_scheme |-> Some("KEYWRAP"),
                       message_authenticator_code_key |-> m, encryption_key |-> e]) :
        m \in {None, Some(Rep("m", 19)), Some(Rep("m", 20)), Some(Rep("m", 21))},
        e \in {None, Some(Rep("e", 15)), Some(Rep("e", 16)), Some(Rep("e", 17))}}
    \cup {With(AaaAps(ip), [encryption_scheme |-> Some("RADSEC"),
                            message_authenticator_code_key |-> m, encryption_key |-> e]) :
            m \in {None, Some(Rep("m", 20))}, e \in {None, Some(Rep("e", 16))}}
    \cup {With(AaaAps(ip), [encryption_scheme |-> Some("AES")])}

PortFamily(ip) ==
    {With(AaaAps(ip), [authentication_port |-> x]) :
        x \in {Some(-1), Some(0), Some(1), Some(65535), Some(65536)}}
    \cup {With(AaaAps(ip), [accounting_port |-> x]) :
        x \in {Some(-1), Some(0), Some(1), Some(65535), Some(65536)}}

TypeFamily(ip) ==
    {With(BlankAps(ip), [server_type |-> ty, shared_secret |-> Some(GoodSecret),
                         cisco_ise_dtos |-> d]) :
        ty \in {None, Some("AAA"), Some("ISE"), Some("LDAP")},
        d \in {None, Some(<<>>), Some(<<GoodCredential>>)}}

IseFamily(ip) ==
    {With(IseAps(ip), [cisco_ise_dtos |-> Some(<<Credential(pw)>>)]) :
        pw \in {None, Some(Rep("p", 3)), Some(Rep("p", 4)), Some(Rep("p", 127)),
                Some(Rep("p", 128)), Some(<<"p", " ", "w", "d">>),
                Some(<<"p", "<", "w", "d">>)}}
    \cup {With(IseAps(ip), [cisco_ise_dtos |-> Some(<<With(GoodCredential, f)>>)]) :
            f \in {[user_name |-> None], [fqdn |-> None], [ip_address |-> None],
                   [description |-> Some("lab")], [ssh_key |-> Some("key")]}}
    \cup {With(IseAps(ip), [cisco_ise_dtos |-> Some(<<GoodCredential, GoodCredential>>)])}
    \cup {With(IseAps(ip), [trusted_server |-> Some(FALSE)])}
    \cup {With(IseAps(ip), [pxgrid_enabled |-> Some(FALSE),
                            use_dnac_cert_for_pxgrid |-> Some(TRUE)])}
    \cup {With(IseAps(ip), [ise_integration_wait_time |-> w]) :
            w \in {Some(0), Some(1), Some(120), Some(121)}}

WideServers ==
    TuneFamily(IP1) \cup FixedFamily(IP1) \cup SecretFamily(IP1)
    \cup EncryptionFamily(IP1) \cup PortFamily(IP1) \cup TypeFamily(IP1)
    \cup IseFamily(IP1)
    \cup {[BlankAps(IP1) EXCEPT !.server_ip_address = None]}

\* playbooks of one config item
WidePlaybooks(state) ==
    {<<>>, <<ItemWithoutServer>>}
    \cup (IF state = "merged"
          THEN {<<Item(aps)>> : aps \in WideServers}
          ELSE {<<Item(BlankAps(IP1))>>,
                <<Item([BlankAps(IP1) EXCEPT !.server_ip_address = None])>>})

SeqServers(state) ==
    IF state = "merged"
    THEN UNION {{AaaAps(ip), With(AaaAps(ip), [retries |-> Some(1)]),
                 With(AaaAps(ip), [protocol |-> Some("TACACS")]), IseAps(ip)} :
                    ip \in IPs}
    ELSE {BlankAps(ip) : ip \in IPs}

RECURSIVE SeqsUpTo(_, _)
SeqsUpTo(S, n) ==
    IF n = 0 THEN {<<>>}
    ELSE LET shorter == SeqsUpTo(S, n - 1)
         IN  shorter \cup {Append(q, x) : q \in shorter, x \in S}

\* playbooks of up to MaxItems config items
SeqPlaybooks(state) ==
    SeqsUpTo({Item(aps) : aps \in SeqServers(state)} \cup {ItemWithoutServer}, MaxItems)

-----------------------------------------------------------------------------
(* Specifications *)

\* DnacBase.__init__ and IseRadiusIntegration.__init__ (lines 423-431)
InitModule ==
    /\ run = 1 /\ idx = 0 /\ pc = "start"
    /\ have = EmptyDict /\ want = EmptyDict
    /\ status = "success" /\ msg = ""
    /\ result = NewResult /\ validation_string = <<>>
    /\ task = NoTask /\ calls = <<>>
    /\ first_result = NewResult

Params ==
    [state : {"merged", "deleted"}, config_verify : BOOLEAN,
     dnac_api_task_timeout : {DefaultTaskTimeout}]

\* one config item from a wide range of values; the playbook may be run twice
Init ==
    /\ params \in Params
    /\ playbook \in WidePlaybooks(params.state)
    /\ remote \in WideRemotes
    /\ InitModule

\* several config items from a narrow range of values, over two servers
InitSeq ==
    /\ params \in Params
    /\ playbook \in SeqPlaybooks(params.state)
    /\ remote \in SeqRemotes
    /\ InitModule

NextSeq ==
    \/ validate_input
    \/ get_have
    \/ get_want
    \/ diff_nothing
    \/ create_auth_policy_server
    \/ update_restricted
    \/ update_not_required
    \/ update_auth_policy_server
    \/ poll_task
    \/ create_done
    \/ update_done
    \/ delete_not_found
    \/ delete_auth_policy_server
    \/ delete_done
    \/ verify_diff_merged
    \/ verify_diff_deleted

Next == NextSeq \/ run_again

Spec == Init /\ [][Next]_vars

SpecSeq == InitSeq /\ [][NextSeq]_vars

-----------------------------------------------------------------------------
(* Properties *)

CreatedMsg == "Authentication and Policy Server Created Successfully"
UpdatedMsg == "Authentication and Policy Server Updated Successfully"
NoUpdateMsg == "Authentication and Policy Server doesn't require an update"

WriteFunctions == {AddFunction, EditFunction, DeleteFunction}
IsWrite(call) == call.function \in WriteFunctions
WritesOf(cs) == SelectSeq(cs, IsWrite)
FunctionsOf(cs) == [i \in 1..Len(cs) |-> cs[i].function]
HasCall(cs, function_name) == \E i \in 1..Len(cs) : cs[i].function = function_name
Expected(function_name) ==
    {validation_string_set(function_name)[i] :
        i \in 1..Len(validation_string_set(function_name))}

\* the pass of main's loop is at get_diff_state_apply for a config item that
\* has an authentication_policy_server
AtApply == pc = "get_diff" /\ ~IsNone(Aps)

\* C1: no config item has more than one write call submitted for it, and the
\* step that applies a config item submits the call its state and the
\* existence found by get_have fix: merged and absent the add call, merged and
\* present the edit call or none, deleted and present the delete call,
\* deleted and absent none.
C1_OneWriteCallByStateAndExistence ==
    /\ [](Len(WritesOf(calls)) <= 1)
    /\ [][AtApply =>
            LET submitted == FunctionsOf(WritesOf(calls'))
            IN  /\ (params.state = "merged" /\ ~HaveExists)
                        => submitted = <<AddFunction>>
                /\ (params.state = "merged" /\ HaveExists)
                        => submitted \in {<<>>, <<EditFunction>>}
                /\ (params.state = "deleted" /\ HaveExists)
                        => submitted = <<DeleteFunction>>
                /\ (params.state = "deleted" /\ ~HaveExists)
                        => submitted = <<>>]_vars

\* the second config item of a playbook had the edit call submitted for it
C1_Witness ==
    /\ idx = 2 /\ pc = "polled"
    /\ FunctionsOf(calls) = <<EditFunction>>

\* the first run recorded that it created or updated the server of the config
\* item, and the controller holds it as a non-ISE server
FirstRunStored ==
    /\ run = 2
    /\ IP1 \in DOMAIN first_result.msg
    /\ first_result.msg[IP1] \in {CreatedMsg, UpdatedMsg}
    /\ ~IsNone(remote[IP1])
    /\ remote[IP1][1]["iseEnabled"] = FALSE

\* C2: when a merged run created or updated a non-ISE server, a second run of
\* the same playbook submits no call, leaves result['changed'] False, does not
\* fail, and records "doesn't require an update" for the server.
C2_SecondRunChangesNothing ==
    FirstRunStored =>
        /\ calls = <<>>
        /\ result.changed = FALSE
        /\ pc \notin {"poll", "polled", "failed", "crashed"}
        /\ (pc \in {"verify", "exit"} =>
                /\ IP1 \in DOMAIN result.msg
                /\ result.msg[IP1] = NoUpdateMsg)

\* the second run of a playbook whose first run updated the server has ended
C2_Witness ==
    /\ FirstRunStored /\ pc = "exit"
    /\ first_result.msg[IP1] = UpdatedMsg
    /\ result.msg[IP1] = NoUpdateMsg

\* the desired values of an existing server pass the restrictions of the update
PassesRestrictions(have_details, want_details) ==
    /\ \A k \in {"authenticationPort", "accountingPort", "role"} :
            want_details[k] = have_details[k]
    /\ (want_details["protocol"] = have_details["protocol"]
        \/ want_details["protocol"] = "RADIUS_TACACS")

AtUpdate == AtApply /\ params.state = "merged" /\ HaveExists

\* C3: for an existing non-ISE server whose desired values pass the update
\* restrictions, the edit call is submitted exactly when protocol, retries or
\* timeoutSeconds differ between have and want.
C3_EditIffAllowListedFieldDiffers ==
    [][(AtUpdate /\ HaveDetails["isIseEnabled"] = FALSE
        /\ PassesRestrictions(HaveDetails, WantServer))
        => (HasCall(calls', EditFunction)
            <=> \E k \in {"protocol", "retries", "timeoutSeconds"} :
                    HaveDetails[k] # WantServer[k])]_vars

\* no edit call although the port of the server differs from the desired one
C3_Witness ==
    /\ pc = "exit" /\ run = 1 /\ calls = <<>>
    /\ IP1 \in DOMAIN result.msg /\ result.msg[IP1] = NoUpdateMsg
    /\ "authenticationPolicyServer" \in DOMAIN have
    /\ "authenticationPolicyServer" \in DOMAIN want
    /\ HaveDetails["port"] # WantServer["port"]

\* C4: every edit call carries the authenticationPort, accountingPort, role
\* and isIseEnabled that the controller held for the server before the call.
C4_EditKeepsForbiddenFields ==
    [][(AtUpdate /\ HasCall(calls', EditFunction))
        => LET payload == calls'[1].params
               server == remote[Ip][1]
           IN  /\ payload["authenticationPort"] = server["authenticationPort"]
               /\ payload["accountingPort"] = server["accountingPort"]
               /\ payload["role"] = server["role"]
               /\ payload["isIseEnabled"] = server["iseEnabled"]]_vars

\* an edit call for a playbook that gives other ports, role and server_type
\* than the server has
C4_Witness ==
    /\ pc = "poll" /\ HasCall(calls, EditFunction)
    /\ Aps[1].authentication_port # Some(HaveDetails["authenticationPort"])
    /\ ~IsNone(Aps[1].authentication_port)
    /\ Aps[1].role # Some(HaveDetails["role"]) /\ ~IsNone(Aps[1].role)
    /\ Aps[1].server_type = Some("ISE") /\ HaveDetails["isIseEnabled"] = FALSE

\* C5: when the desired protocol of an existing server differs from its
\* protocol, then unless it is RADIUS_TACACS the module fails with the
\* "'protocol' can only be updated to 'RADIUS_TACACS'" message and submits no
\* call, and if it is RADIUS_TACACS the edit call is submitted.
C5_ProtocolOnlyToRadiusTacacs ==
    [][(AtUpdate /\ WantServer["protocol"] # HaveDetails["protocol"])
        => IF WantServer["protocol"] # "RADIUS_TACACS"
           THEN /\ pc' = "failed" /\ status' = "failed"
                /\ msg' = "'protocol' can only be updated to 'RADIUS_TACACS' not from '"
                          \o HaveDetails["protocol"] \o "' to '"
                          \o WantServer["protocol"] \o "'"
                /\ calls' = <<>>
           ELSE HasCall(calls', EditFunction)]_vars

\* the module failed on a change of protocol from RADIUS to TACACS
C5_Witness ==
    /\ pc = "failed" /\ status = "failed" /\ calls = <<>>
    /\ "authenticationPolicyServer" \in DOMAIN have
    /\ "authenticationPolicyServer" \in DOMAIN want
    /\ HaveExists
    /\ HaveDetails["protocol"] = "RADIUS" /\ WantServer["protocol"] = "TACACS"

CreateOnlyKeys == {"sharedSecret", "encryptionScheme", "encryptionKey", "messageKey"}

\* C6: no edit call has sharedSecret, encryptionScheme, encryptionKey or
\* messageKey in its payload.
C6_EditWithoutSecrets ==
    \A i \in 1..Len(calls) :
        calls[i].function = EditFunction
            => (DOMAIN calls[i].params) \cap CreateOnlyKeys = {}

\* an edit call for a playbook that gives the shared secret, the encryption
\* scheme and both keys
C6_Witness ==
    /\ HasCall(calls, EditFunction)
    /\ ~IsNone(Aps[1].shared_secret) /\ ~IsNone(Aps[1].encryption_scheme)
    /\ ~IsNone(Aps[1].encryption_key)
    /\ ~IsNone(Aps[1].message_authenticator_code_key)

\* C7: when the polling of an add or edit task has ended, it ended with
\* status success and a validation string in a polled progress, or with
\* status failed and isError in the polled task, or with status failed and the
\* "Max timeout" message once the elapsed time reached max_timeout; and no
\* poll was made once the elapsed time had reached max_timeout.
C7_PollingEndsByStringErrorOrTimeout ==
    (pc = "polled" /\ task.function \in {AddFunction, EditFunction}) =>
        /\ \/ status = "success" /\ task.seen \cap Expected(task.function) # {}
           \/ status = "failed" /\ task.is_error
           \/ /\ status = "failed" /\ msg = TimeoutMsg(params.dnac_api_task_timeout, TaskId, task.function)
              /\ TimedOut(task.elapsed, params.dnac_api_task_timeout)
        /\ ~TimedOut(task.last_poll, params.dnac_api_task_timeout)

\* C8: "Created Successfully" or "Updated Successfully" is recorded for a
\* server only if a polled progress of the task of that add or edit call
\* contained one of the validation strings of the call.
C8_SuccessOnlyAfterOwnTaskReported ==
    [][(pc = "polled" /\ result' # result
        /\ Ip \in DOMAIN result'.msg
        /\ result'.msg[Ip] \in {CreatedMsg, UpdatedMsg})
        => task.seen \cap Expected(task.function) # {}]_vars

\* C9: the accept-certificate call is submitted only for an ISE server that is
\* being created, after the add call of the same config item, and after a
\* polled progress of that add task contained "operation sucessful".
C9_CertificateOnlyAfterOwnAddReported ==
    [][(HasCall(calls', AcceptFunction) /\ ~HasCall(calls, AcceptFunction))
        => /\ task.function = AddFunction
           /\ HasCall(calls, AddFunction)
           /\ ~HasCall(calls, EditFunction) /\ ~HasCall(calls, DeleteFunction)
           /\ WantServer["isIseEnabled"] = TRUE
           /\ OperationString \in task.seen]_vars

\* C10: whenever the status is "failed", msg is a non-empty text.
C10_FailureHasMessage ==
    status = "failed" => msg # ""

NotFoundText == "Authentication and Policy Server not found"
DeletedMsg == "Authentication and Policy Server deleted successfully."

\* the run has recorded "not found" for the server of the config item (the
\* delete path records a msg as well, the "not found" path only a response)
NotFoundRecorded ==
    /\ IP1 \in DOMAIN result.response /\ IP1 \notin DOMAIN result.msg
    /\ result.response[IP1] = NotFoundText

\* C11: in state deleted, the step that applies a config item whose server the
\* controller does not hold submits no call, sets status success, records
\* "Authentication and Policy Server not found" for the IP and goes on without
\* failing, and the step for a server the controller holds submits exactly one
\* delete call whose id is the instanceUuid of that server; a run that
\* recorded "not found" has status success and no call until it ends; and
\* the second run of a playbook whose first run deleted the server or found
\* none submits no call, changes nothing, does not fail and records
\* "not found".
C11_DeleteIsIdempotent ==
    /\ [][(AtApply /\ params.state = "deleted")
            => IF IsNone(remote[Ip])
               THEN /\ calls' = <<>> /\ status' = "success"
                    /\ pc' \in {"verify", "exit"}
                    /\ Ip \in DOMAIN result'.response
                    /\ result'.response[Ip] = NotFoundText
                    /\ result'.changed = result.changed
                    /\ remote' = remote
               ELSE /\ FunctionsOf(calls') = <<DeleteFunction>>
                    /\ calls'[1].params = [id |-> remote[Ip][1]["instanceUuid"]]]_vars
    /\ []((params.state = "deleted" /\ NotFoundRecorded)
            => /\ pc \in {"verify", "exit"}
               /\ status = "success" /\ calls = <<>> /\ result.changed = FALSE)
    /\ []((params.state = "deleted" /\ run = 2
            /\ IP1 \in DOMAIN first_result.response)
            => /\ calls = <<>> /\ result.changed = FALSE
               /\ pc \notin {"poll", "polled", "failed", "crashed"}
               /\ (pc \in {"verify", "exit"} => NotFoundRecorded))

\* the first run deleted the server and the second run, which found none, has
\* ended
C11_Witness ==
    /\ params.state = "deleted" /\ run = 2 /\ pc = "exit"
    /\ first_result.changed = TRUE
    /\ IP1 \in DOMAIN first_result.msg /\ first_result.msg[IP1] = DeletedMsg
    /\ NotFoundRecorded /\ status = "success" /\ calls = <<>>

\* get_want is about to run for a config item whose server the controller
\* does not hold: the server is being created
AtWantCreate == pc = "get_want" /\ ~IsNone(Aps) /\ ~HaveExists

\* a shared secret that is missing or empty, shorter than 4 or longer than
\* 100 characters, or holds a space, '<' or '?'
BadSecret(x) ==
    \/ IsNone(x)
    \/ Len(x[1]) < 4 \/ Len(x[1]) > 100
    \/ HasChar(x[1], " ") \/ HasChar(x[1], "<") \/ HasChar(x[1], "?")

\* C12: when a server is being created and the shared_secret of the playbook
\* is missing, shorter than 4, longer than 100 or holds a space, '<' or '?',
\* get_want ends the module with status failed and no call submitted; and
\* every add call carries as sharedSecret the playbook's shared_secret, which
\* has 4 to 100 characters and none of the forbidden ones.
C12_SharedSecretChecked ==
    /\ [][(AtWantCreate /\ BadSecret(Aps[1].shared_secret))
            => (pc' = "failed" /\ status' = "failed" /\ calls' = <<>>)]_vars
    /\ [](\A i \in 1..Len(calls) :
            calls[i].function = AddFunction
                => /\ ~BadSecret(playbook[1].authentication_policy_server[1].shared_secret)
                   /\ calls[i].params["sharedSecret"]
                        = playbook[1].authentication_policy_server[1].shared_secret[1])

\* the module failed on a shared_secret of four characters with a '?'
C12_Witness ==
    /\ pc = "failed" /\ status = "failed" /\ calls = <<>>
    /\ ~IsNone(Aps)
    /\ Aps[1].shared_secret = Some(<<"a", "b", "?", "c">>)
    /\ msg = "The 'shared_secret' should not contain spaces or the characters '?', '<'."

\* C13: when a server is being created with encryption_scheme KEYWRAP or
\* RADSEC and message_authenticator_code_key or encryption_key is missing,
\* get_want ends the module with status failed and no call submitted.
C13_EncryptionKeysRequired ==
    [][(AtWantCreate
        /\ Aps[1].encryption_scheme \in {Some("KEYWRAP"), Some("RADSEC")}
        /\ (~TruthySeq(Aps[1].message_authenticator_code_key)
            \/ ~TruthySeq(Aps[1].encryption_key)))
        => (pc' = "failed" /\ status' = "failed" /\ calls' = <<>>)]_vars

\* the authentication_policy_server of the one config item of the playbook
Aps1 == playbook[1].authentication_policy_server[1]

\* C14: when a server is being created with encryption_scheme KEYWRAP and
\* both keys given, and the encryption key is not 16 or the message
\* authenticator code key is not 20 characters long, get_want ends the module
\* with status failed and no call submitted; and every add call with
\* encryptionScheme KEYWRAP carries as messageKey and encryptionKey the keys of
\* the playbook, which have 20 and 16 characters, while an add call without
\* that scheme carries neither key.
C14_KeywrapKeyLengths ==
    /\ [][(AtWantCreate /\ Aps[1].encryption_scheme = Some("KEYWRAP")
           /\ TruthySeq(Aps[1].message_authenticator_code_key)
           /\ TruthySeq(Aps[1].encryption_key)
           /\ (Len(Aps[1].message_authenticator_code_key[1]) # 20
               \/ Len(Aps[1].encryption_key[1]) # 16))
            => (pc' = "failed" /\ status' = "failed" /\ calls' = <<>>)]_vars
    /\ [](\A i \in 1..Len(calls) :
            calls[i].function = AddFunction
                => IF Aps1.encryption_scheme = Some("KEYWRAP")
                   THEN /\ {"messageKey", "encryptionKey"} \subseteq DOMAIN calls[i].params
                        /\ calls[i].params["messageKey"]
                                = Aps1.message_authenticator_code_key[1]
                        /\ calls[i].params["encryptionKey"] = Aps1.encryption_key[1]
                        /\ Len(calls[i].params["messageKey"]) = 20
                        /\ Len(calls[i].params["encryptionKey"]) = 16
                   ELSE {"messageKey", "encryptionKey"} \cap DOMAIN calls[i].params = {})

\* the module failed on a KEYWRAP encryption key of 17 characters given with
\* a message authenticator code key of 20
C14_Witness ==
    /\ pc = "failed" /\ status = "failed" /\ calls = <<>>
    /\ ~IsNone(Aps)
    /\ Aps[1].encryption_scheme = Some("KEYWRAP")
    /\ Aps[1].message_authenticator_code_key = Some(Rep("m", 20))
    /\ Aps[1].encryption_key = Some(Rep("e", 17))
    /\ msg = "The 'encryption_key' must be 16 characters long. It may contain alphanumeric and special characters."

\* a port is given in the playbook and is not within 1..65535
PortOutOfRange(x) == ~IsNone(x) /\ (x[1] < 1 \/ x[1] > 65535)

\* C15: when a server is being created and the playbook gives an
\* authentication_port or an accounting_port outside 1..65535, get_want ends
\* the module with status failed, the "should be from 1 to 65535" message of
\* that port and no call submitted; and every add call carries an
\* authenticationPort and an accountingPort within 1..65535.
C15_PortsInRange ==
    /\ [][(AtWantCreate /\ PortOutOfRange(Aps[1].authentication_port))
            => /\ pc' = "failed" /\ status' = "failed" /\ calls' = <<>>
               /\ msg' = "The 'authentication_port' should be from 1 to 65535."]_vars
    /\ [][(AtWantCreate /\ ~PortOutOfRange(Aps[1].authentication_port)
           /\ PortOutOfRange(Aps[1].accounting_port))
            => /\ pc' = "failed" /\ status' = "failed" /\ calls' = <<>>
               /\ msg' = "The 'accounting_port' should be from 1 to 65535."]_vars
    /\ [](\A i \in 1..Len(calls) :
            calls[i].function = AddFunction
                => /\ calls[i].params["authenticationPort"] \in 1..65535
                   /\ calls[i].params["accountingPort"] \in 1..65535)

\* get_want is about to run for a config item with an
\* authentication_policy_server, for a server to create or to update
AtWant == pc = "get_want" /\ ~IsNone(Aps)

\* C16: when the playbook gives a retries value outside 1..3, for a server to
\* create or to update, get_want ends the module with status failed, the
\* message "The 'retries' should be from 1 to 3." and no call submitted; and
\* an add or edit call for a playbook that gives retries carries its decimal
\* string as retries.
C16_RetriesInRange ==
    /\ [][(AtWant /\ ~IsNone(Aps[1].retries)
           /\ (Aps[1].retries[1] < 1 \/ Aps[1].retries[1] > 3))
            => /\ pc' = "failed" /\ status' = "failed" /\ calls' = <<>>
               /\ msg' = "The 'retries' should be from 1 to 3."]_vars
    /\ [](\A i \in 1..Len(calls) :
            (calls[i].function \in {AddFunction, EditFunction}
             /\ ~IsNone(Aps1.retries))
                => calls[i].params["retries"] = IntToStr(Aps1.retries[1]))

\* C17: when the playbook gives a timeout outside 2..20, for a server to
\* create or to update, get_want ends the module with status failed, the
\* message "The 'timeout' should be from 2 to 20." and no call submitted; and
\* the add or edit call submitted for a config item carries as
\* timeoutSeconds the decimal string of the playbook's timeout, which is
\* within 2..20, or, when the playbook gives none, "4" in an add call and the
\* timeoutSeconds the controller holds for the server in an edit call.
C17_TimeoutInRange ==
    /\ [][(AtWant /\ ~IsNone(Aps[1].timeout)
           /\ (Aps[1].timeout[1] < 2 \/ Aps[1].timeout[1] > 20))
            => /\ pc' = "failed" /\ status' = "failed" /\ calls' = <<>>
               /\ msg' = "The 'timeout' should be from 2 to 20."]_vars
    /\ [][(AtApply /\ params.state = "merged" /\ calls' # <<>>)
            => calls'[1].params["timeoutSeconds"] =
                    IF ~IsNone(Aps[1].timeout) THEN IntToStr(Aps[1].timeout[1])
                    ELSE IF calls'[1].function = AddFunction THEN "4"
                    ELSE PyStr(remote[Ip][1]["timeoutSeconds"])]_vars
    /\ [](\A i \in 1..Len(calls) :
            (calls[i].function \in {AddFunction, EditFunction}
             /\ ~IsNone(Aps1.timeout))
                => Aps1.timeout[1] \in 2..20)

\* the module failed on a timeout of 21 given for a server the controller
\* holds
C17_Witness ==
    /\ pc = "failed" /\ status = "failed" /\ calls = <<>>
    /\ ~IsNone(Aps) /\ Aps[1].timeout = Some(21)
    /\ ~IsNone(remote[IP1])
    /\ msg = "The 'timeout' should be from 2 to 20."

\* the desired server is ISE-enabled: a server to create with server_type
\* ISE, or a server the controller holds as ISE-enabled
DesiredIse ==
    IF IsNone(remote[Ip]) THEN Aps[1].server_type = Some("ISE")
    ELSE remote[Ip][1]["iseEnabled"] = TRUE

\* a Cisco ISE password that is missing or empty, shorter than 4 or longer
\* than 127 characters, or holds a space or '<'
BadPassword(x) ==
    \/ IsNone(x)
    \/ Len(x[1]) < 4 \/ Len(x[1]) > 127
    \/ HasChar(x[1], " ") \/ HasChar(x[1], "<")

\* C18: when the desired server is ISE-enabled and an entry of the playbook's
\* cisco_ise_dtos has a password that is missing, shorter than 4, longer than
\* 127 or holds a space or '<', get_want ends the module with status failed
\* and no call submitted.
C18_IsePasswordChecked ==
    [][(AtWant /\ DesiredIse /\ ~IsNone(Aps[1].cisco_ise_dtos)
        /\ \E i \in 1..Len(Aps[1].cisco_ise_dtos[1]) :
                BadPassword(Aps[1].cisco_ise_dtos[1][i].password))
        => (pc' = "failed" /\ status' = "failed" /\ calls' = <<>>)]_vars

MissingDtosMsg == "Missing parameter 'cisco_ise_dtos' required when server_type is 'ISE'."

\* the playbook's authentication_policy_server would pass get_want if it gave
\* a valid cisco_ise_dtos: nothing but cisco_ise_dtos can make it fail
OnlyDtosAtFault ==
    get_want_authentication_policy_server(
        With(Aps[1], [cisco_ise_dtos |-> Some(<<GoodCredential>>)]),
        HaveExists, IF HaveExists THEN HaveDetails ELSE EmptyDict).status = "success"

\* C19: when the desired server is ISE-enabled and the playbook's
\* cisco_ise_dtos is missing or empty, get_want ends the module with status
\* failed and no call submitted, with the message "Missing parameter
\* 'cisco_ise_dtos' required when server_type is 'ISE'." whenever nothing else
\* of the playbook is at fault; when the desired server is not ISE-enabled
\* get_want never fails with that message; and no add or edit call for a
\* server that is not ISE-enabled carries ciscoIseDtos.
C19_IseNeedsDtos ==
    /\ [][(AtWant /\ DesiredIse /\ ~TruthySeq(Aps[1].cisco_ise_dtos))
            => /\ pc' = "failed" /\ status' = "failed" /\ calls' = <<>>
               /\ (OnlyDtosAtFault => msg' = MissingDtosMsg)]_vars
    /\ [][(AtWant /\ ~DesiredIse) => msg' # MissingDtosMsg]_vars
    /\ [](\A i \in 1..Len(calls) :
            (calls[i].function \in {AddFunction, EditFunction}
             /\ calls[i].params["isIseEnabled"] = FALSE)
                => "ciscoIseDtos" \notin DOMAIN calls[i].params)

\* the module failed on a playbook without cisco_ise_dtos for a server the
\* controller holds as ISE-enabled
C19_Witness ==
    /\ pc = "failed" /\ status = "failed" /\ calls = <<>>
    /\ msg = MissingDtosMsg
    /\ ~IsNone(Aps) /\ IsNone(Aps[1].cisco_ise_dtos)
    /\ Aps[1].server_type = Some("AAA")
    /\ ~IsNone(remote[IP1]) /\ remote[IP1][1]["iseEnabled"] = TRUE

====
